---- MODULE Spec2Model ----
(***************************************************************************)
(* FOTZ PDF microservice (src/app.py).                                     *)
(*                                                                         *)
(* Text is modelled as a sequence of one-character strings, so that the    *)
(* regular expressions of the text normaliser are computed position by     *)
(* position, as the re module computes them.                               *)
(***************************************************************************)
EXTENDS Integers, Sequences, FiniteSets, TLC

VARIABLES
    rq,         \* the requests being served: rq[r] holds the locals of handler r
    fs,         \* the scratch file system: fs[d] is temporary directory d
    text,       \* the text handed to the function under study (content / title)
    kws,        \* keywords_to_bold, a sequence of keywords
    content,    \* the working copy of the text (the local `content`)
    prev,       \* the value of content before the last keyword was applied
    kwIdx,      \* how many keywords of kws the loop of line 148 has applied
    phase       \* "in" before the function has run, "run" inside the loop, "done" after

textVars == <<text, kws, content, prev, kwIdx, phase>>

pipeVars == <<rq, fs>>

vars == <<rq, fs, text, kws, content, prev, kwIdx, phase>>

-----------------------------------------------------------------------------
(* Characters *)

UpperAlpha == <<"A","B","C","D","E","F","G","H","I","J","K","L","M",
                "N","O","P","Q","R","S","T","U","V","W","X","Y","Z">>
LowerAlpha == <<"a","b","c","d","e","f","g","h","i","j","k","l","m",
                "n","o","p","q","r","s","t","u","v","w","x","y","z">>

\* The Polish lower-case letters of the character class of line 150, as atoms.
PolishLower == {"a_ogonek", "c_acute", "e_ogonek", "l_stroke", "n_acute",
                "o_acute", "s_acute", "z_acute", "z_dot"}

Digits == {"0","1","2","3","4","5","6","7","8","9"}

\* What \s and str.split() take for white space.
WhiteSpace == {" ", "\t", "\n", "\r", "\f"}

IsUpper(c) == \E i \in 1..26 : UpperAlpha[i] = c
IsLower(c) == (\E i \in 1..26 : LowerAlpha[i] = c) \/ c \in PolishLower
Lower(c) == IF IsUpper(c) THEN LowerAlpha[CHOOSE i \in 1..26 : UpperAlpha[i] = c] ELSE c
Upper(c) == IF \E i \in 1..26 : LowerAlpha[i] = c
            THEN UpperAlpha[CHOOSE i \in 1..26 : LowerAlpha[i] = c] ELSE c

\* str.lower()
LowerStr(s) == [i \in 1..Len(s) |-> Lower(s[i])]

\* str.capitalize(): first character upper-cased, all the others lower-cased.
Capitalize(s) == [i \in 1..Len(s) |-> IF i = 1 THEN Upper(s[i]) ELSE Lower(s[i])]

RECURSIVE Join(_, _)
\* sep.join(ss)
Join(ss, sep) ==
    IF ss = <<>> THEN <<>>
    ELSE IF Len(ss) = 1 THEN ss[1]
    ELSE ss[1] \o sep \o Join(Tail(ss), sep)

RECURSIVE Run(_, _, _)
\* The number of consecutive characters of s, from position p on, that are in set S.
Run(s, p, S) == IF p <= Len(s) /\ s[p] \in S THEN 1 + Run(s, p + 1, S) ELSE 0

AllChars(s) == {s[i] : i \in 1..Len(s)}

RECURSIVE SplitWords(_)
\* str.split(): the maximal runs of non-white-space characters.
SplitWords(s) ==
    IF s = <<>> THEN <<>>
    ELSE IF s[1] \in WhiteSpace THEN SplitWords(Tail(s))
    ELSE LET n == Run(s, 1, AllChars(s) \ WhiteSpace)
         IN  <<SubSeq(s, 1, n)>> \o SplitWords(SubSeq(s, n + 1, Len(s)))

RECURSIVE SplitOn(_, _)
\* str.split(sep) for a non-empty separator: always at least one piece.
SplitOn(s, sep) ==
    LET n == Len(sep)
        hits == {p \in 1..(Len(s) - n + 1) : SubSeq(s, p, p + n - 1) = sep}
    IN  IF hits = {} THEN <<s>>
        ELSE LET p == CHOOSE q \in hits : \A r \in hits : q <= r
             IN  <<SubSeq(s, 1, p - 1)>> \o SplitOn(SubSeq(s, p + n, Len(s)), sep)

-----------------------------------------------------------------------------
(* standardize_titles *)

PROPER_NOUNS == <<
    <<"N","o","t","i","o","n">>, <<"T","r","e","l","l","o">>, <<"A","s","a","n","a">>,
    <<"G","o","o","g","l","e">>, <<"Z","a","p","i","e","r">>,
    <<"Y","o","u","T","u","b","e">>,
    <<"I","n","s","t","a","g","r","a","m">>, <<"T","i","k","T","o","k">>,
    <<"F","a","c","e","b","o","o","k">>, <<"L","i","n","k","e","d","I","n">>,
    <<"T","w","i","t","t","e","r">>,
    <<"E","x","c","e","l">>, <<"T","a","b","l","e","a","u">>,
    <<"P","o","w","e","r","B","I">>, <<"B","u","f","f","e","r">>,
    <<"H","u","b","S","p","o","t">>,
    <<"I","C","E">>, <<"E","V","P">>, <<"S","O","P">>, <<"A","I">>, <<"A","P","I">>,
    <<"D","e","e","p","L">>, <<"F","O","T","Z">> >>

\* any(pn.lower() == word.lower() for pn in PROPER_NOUNS)
IsProper(word) ==
    \E i \in 1..Len(PROPER_NOUNS) : LowerStr(PROPER_NOUNS[i]) = LowerStr(word)

\* The first registry entry equal to the word up to case (the loop of lines 126-129).
ProperForm(word) ==
    PROPER_NOUNS[CHOOSE i \in 1..Len(PROPER_NOUNS) :
                    /\ LowerStr(PROPER_NOUNS[i]) = LowerStr(word)
                    /\ \A j \in 1..(i - 1) : LowerStr(PROPER_NOUNS[j]) # LowerStr(word)]

\* Lines 123-131: every word after the first.
RestWord(word) == IF IsProper(word) THEN ProperForm(word) ELSE LowerStr(word)

\* Line 121: the first word.
FirstWord(word) == Capitalize(word)

\* process_title(match): prefix = group(1), title = group(2), whole = group(0).
process_title(prefix, title, whole) ==
    LET words == SplitWords(title)
    IN  IF words = <<>> THEN whole
        ELSE prefix \o <<" ">> \o
             Join(<<FirstWord(words[1])>> \o
                  [i \in 1..(Len(words) - 1) |-> RestWord(words[i + 1])], <<" ">>)

\* ^ under re.MULTILINE: the start of the text or the position after a newline.
IsLineStart(s, p) == p = 1 \/ s[p - 1] = "\n"

\* The position of the first newline at or after p, Len(s) + 1 when there is none:
\* where a greedy .+ started at p stops, and where $ under re.MULTILINE matches.
LineEnd(s, p) == p + Run(s, p, AllChars(s) \ {"\n"})

\* The pattern of line 135, ^(#{2,4})\s+(.+)$, tried at position p. The result is
\* <<k, w>>: the lengths matched by #{2,4} and by \s+, the greedy choice among
\* those for which the rest of the pattern matches; <<0, 0>> when none does.
TitleMatch(s, p) ==
    LET h == Run(s, p, {"#"})
        ok == {kw \in (2..4) \X (1..Len(s)) :
                  /\ kw[1] <= h
                  /\ kw[2] <= Run(s, p + kw[1], WhiteSpace)
                  /\ p + kw[1] + kw[2] <= Len(s)
                  /\ s[p + kw[1] + kw[2]] # "\n"}
    IN  IF ~IsLineStart(s, p) \/ ok = {} THEN <<0, 0>>
        ELSE CHOOSE kw \in ok :
                \A o \in ok : o[1] < kw[1] \/ (o[1] = kw[1] /\ o[2] <= kw[2])

RECURSIVE SubTitles(_, _)
\* re.sub(pattern, process_title, content, flags=re.MULTILINE), from position p on.
SubTitles(s, p) ==
    IF p > Len(s) THEN <<>>
    ELSE LET m == TitleMatch(s, p)
             b == p + m[1] + m[2]
             e == LineEnd(s, b)
         IN  IF m = <<0, 0>> THEN <<s[p]>> \o SubTitles(s, p + 1)
             ELSE process_title(SubSeq(s, p, p + m[1] - 1), SubSeq(s, b, e - 1),
                                SubSeq(s, p, e - 1))
                  \o SubTitles(s, e)

standardize_titles(s) == SubTitles(s, 1)

-----------------------------------------------------------------------------
(* Title sanitisation: lines 494 and 534 *)

\* \w: letters, digits and the underscore.
IsWordChar(c) == IsUpper(c) \/ IsLower(c) \/ c \in Digits \/ c = "_"

\* re.sub(r'[^\w\s-]', '', title)
StripTitle(s) == SelectSeq(s, LAMBDA c : IsWordChar(c) \/ c \in WhiteSpace \/ c = "-")

\* .replace(' ', '_')
ReplaceSpaces(s) == [i \in 1..Len(s) |-> IF s[i] = " " THEN "_" ELSE s[i]]

safe_title(title) == ReplaceSpaces(StripTitle(title))

-----------------------------------------------------------------------------
(* apply_bold_keywords *)

\* The {0,6} of the pattern of line 150.
SuffixMax == 6

\* [a-z...] of line 150 under re.IGNORECASE: a letter of the class in either case.
InSuffixClass(c) == IsLower(Lower(c))

\* Whether the two characters of s at positions p and p + 1 are "**".
StarsAt(s, p) == p >= 1 /\ p + 1 <= Len(s) /\ s[p] = "*" /\ s[p + 1] = "*"

\* (?<!\*\*) at position p: the two characters before p are not "**".
LookBehindOK(s, p) == ~StarsAt(s, p - 2)

\* (?!\*\*) at position q: the two characters from q on are not "**".
LookAheadOK(s, q) == ~StarsAt(s, q)

\* re.escape(keyword) under re.IGNORECASE, at position p.
KeywordAt(s, p, kw) ==
    /\ p + Len(kw) - 1 <= Len(s)
    /\ LowerStr(SubSeq(s, p, p + Len(kw) - 1)) = LowerStr(kw)

\* The pattern of line 150 tried at position p: the number of trailing letters the
\* greedy {0,6} ends with after backtracking past a failing look-ahead, -1 when the
\* pattern does not match at p.
BoldMatch(s, p, kw) ==
    LET q == p + Len(kw)
        run == Run(s, q, {c \in AllChars(s) : InSuffixClass(c)})
        n == IF run > SuffixMax THEN SuffixMax ELSE run
        ok == {j \in 0..n : LookAheadOK(s, q + j)}
    IN  IF ~LookBehindOK(s, p) \/ ~KeywordAt(s, p, kw) \/ ok = {} THEN -1
        ELSE CHOOSE j \in ok : \A o \in ok : o <= j

\* A re.sub that replaces the last match instead of the first.
ReplacedLast(hits) == {p \in hits : \A o \in hits : p >= o}

\* count=1 of line 156: of the positions where the pattern matches, the ones replaced.
Replaced(hits) == {p \in hits : \A o \in hits : p <= o}

\* re.sub(pattern, r'**\1**', para, count=1, flags=re.IGNORECASE)
BoldFirst(para, kw) ==
    LET hits == Replaced({p \in 1..Len(para) : BoldMatch(para, p, kw) >= 0})
    IN  IF hits = {} THEN para
        ELSE LET p == CHOOSE h \in hits : \A o \in hits : h <= o
                 e == p + Len(kw) + BoldMatch(para, p, kw) - 1
             IN  SubSeq(para, 1, p - 1) \o <<"*", "*">> \o SubSeq(para, p, e)
                 \o <<"*", "*">> \o SubSeq(para, e + 1, Len(para))

ParaSep == <<"\n", "\n">>

\* replace_first_in_paragraph(text), for the keyword of the current iteration.
replace_first_in_paragraph(s, kw) ==
    LET paragraphs == SplitOn(s, ParaSep)
    IN  Join([i \in 1..Len(paragraphs) |-> BoldFirst(paragraphs[i], kw)], ParaSep)

-----------------------------------------------------------------------------
(* The request pipeline: generate_pdf, generate_zip, generate_pdf_from_content *)

\* The handler slots. One process serves its requests one after the other (the
\* handlers are async functions that never await); two slots stand for two server
\* processes that share the directory of temporary files.
Reqs == {1, 2}

\* The names tempfile can give a temporary directory.
DirNames == {"tmp_a", "tmp_b"}

\* An optional field of the request, as the tests `if request.x:` see it: Absent is
\* None or an empty value, Given is a non-empty one.
Opt == {"Absent", "Given"}

MaxInf == 2

\* The requests: infographic_urls is given by its length (None is 0).
Requests ==
    [endpoint : {"pdf"}, cover_url : Opt, logo_url : Opt, infographic_urls : 0..MaxInf,
     mockup_url : {"Absent"}, blog_post : {"Absent"}, shop_description : {"Absent"}]
    \cup
    [endpoint : {"zip"}, cover_url : Opt, logo_url : Opt, infographic_urls : 0..MaxInf,
     mockup_url : Opt, blog_post : Opt, shop_description : Opt]

\* The requests two processes are given when they run side by side.
SmallRequests ==
    [endpoint : {"pdf", "zip"}, cover_url : Opt, logo_url : {"Absent"},
     infographic_urls : {0}, mockup_url : {"Absent"}, blog_post : Opt,
     shop_description : {"Absent"}]

NoRequest ==
    [endpoint |-> "none", cover_url |-> "Absent", logo_url |-> "Absent",
     infographic_urls |-> 0, mockup_url |-> "Absent", blog_post |-> "Absent",
     shop_description |-> "Absent"]

NoResponse == [status |-> "none", media |-> "none", body |-> <<>>]

\* A slot that serves no request.
Idle ==
    [pc |-> "idle", request |-> NoRequest, temp_dir |-> "none", logo_html |-> FALSE,
     merger |-> <<>>, i |-> 0, pdf_bytes |-> <<>>, zipf |-> <<>>, exc |-> FALSE,
     response |-> NoResponse,
     got |-> {},              \* the file names download_image returned a path for
     localFailed |-> FALSE]   \* a local step (file, render, decode, merge) has failed

NoDir == [exists |-> FALSE, owner |-> 0, files |-> {}]

PipeInit ==
    /\ rq = [r \in Reqs |-> Idle]
    /\ fs = [d \in DirNames |-> NoDir]

\* What requests.get and raise_for_status of lines 321-322 can end with.
FetchOutcomes == {"ok", "network_error", "timeout", "http_error"}

\* What open and write of lines 325-326 can end with.
WriteOutcomes == {"ok", "io_error"}

\* download_image: whether it returns the path (TRUE) or None (FALSE).
download_image(net, wr) == net = "ok" /\ wr = "ok"

\* The scratch directory after download_image(url, temp_dir, filename) by request r:
\* the file is there when the response was received and written.
Downloaded(fsys, r, filename, net, wr) ==
    IF net = "ok" /\ wr = "ok"
    THEN [fsys EXCEPT ![rq[r].temp_dir].files = @ \cup {<<filename, r>>}]
    ELSE fsys

\* The scratch directory with file filename written by request r.
Written(fsys, r, filename) ==
    [fsys EXCEPT ![rq[r].temp_dir].files = @ \cup {<<filename, r>>}]

\* A name taken by every handler, whether a directory of that name exists or not.
mkdtemp_taken(fsys) == DirNames

\* tempfile.TemporaryDirectory(): the names mkdtemp can return, those of no
\* existing directory.
mkdtemp(fsys) == {d \in DirNames : ~fsys[d].exists}

\* A merger that puts each document before the ones it holds.
MergerPrepend(m, src) == <<src>> \o m

\* PdfMerger.append
MergerAppend(m, src) == Append(m, src)

\* f"infographic_{i}.png" and f"infographic_{i}.pdf" of lines 448 and 450, i from 0.
InfPng(i) == "infographic_" \o ToString(i) \o ".png"
InfPdf(i) == "infographic_" \o ToString(i) \o ".pdf"

\* f"inf_{i}_dl.png" of line 554, i from 1.
InfDl(i) == "inf_" \o ToString(i) \o "_dl.png"

\* An archive that numbers the infographics from 0.
ZipInfNameFromZero(i) == "infographic_" \o ToString(i - 1) \o ".png"

\* f"infographic_{i}.png" of line 557, i from 1.
ZipInfName(i) == "infographic_" \o ToString(i) \o ".png"

\* An exception leaves the with blocks: the directory is removed next.
Raise(r) ==
    rq' = [rq EXCEPT ![r].exc = TRUE, ![r].localFailed = TRUE, ![r].pc = "exit_dir"]

\* Lines 489-490 and 514-518: the handler is entered with a request and makes its
\* temporary directory.
Start(r, request) ==
    /\ rq[r].pc = "idle"
    /\ \/ \E d \in mkdtemp(fs) :
            /\ fs' = [fs EXCEPT ![d] = [exists |-> TRUE, owner |-> r, files |-> {}]]
            /\ rq' = [rq EXCEPT ![r].request = request, ![r].temp_dir = d,
                                ![r].pc = "logo"]
       \/ /\ rq' = [rq EXCEPT ![r].request = request, ![r].exc = TRUE,
                              ![r].localFailed = TRUE, ![r].pc = "except"]
          /\ fs' = fs
    /\ UNCHANGED textVars

\* Lines 381-405: the content is processed and the logo fetched.
FetchLogo(r) ==
    /\ rq[r].pc = "logo"
    /\ IF rq[r].request.logo_url = "Given"
       THEN \E net \in FetchOutcomes, wr \in WriteOutcomes :
               /\ fs' = Downloaded(fs, r, "logo.png", net, wr)
               /\ rq' = [rq EXCEPT
                     ![r].logo_html = download_image(net, wr),
                     ![r].got = IF download_image(net, wr)
                                THEN @ \cup {"logo.png"} ELSE @,
                     ![r].localFailed = @ \/ (net = "ok" /\ wr # "ok"),
                     ![r].pc = "html"]
       ELSE /\ rq' = [rq EXCEPT ![r].pc = "html"]
            /\ fs' = fs
    /\ UNCHANGED textVars

\* Lines 407-425: the HTML document is written to content.html.
WriteHtml(r) ==
    /\ rq[r].pc = "html"
    /\ \/ /\ fs' = Written(fs, r, "content.html")
          /\ rq' = [rq EXCEPT ![r].pc = "render"]
       \/ Raise(r) /\ fs' = fs
    /\ UNCHANGED textVars

\* Lines 427-429: the content document, with the logo block when logo_html is set.
RenderContent(r) ==
    /\ rq[r].pc = "render"
    /\ \/ /\ fs' = Written(fs, r, "content.pdf")
          /\ rq' = [rq EXCEPT ![r].pc = "cover"]
       \/ Raise(r) /\ fs' = fs
    /\ UNCHANGED textVars

\* Lines 431-440: the merger is made and the cover page put in it.
MergeCover(r) ==
    /\ rq[r].pc = "cover"
    /\ IF rq[r].request.cover_url = "Given"
       THEN \E net \in FetchOutcomes, wr \in WriteOutcomes :
               IF download_image(net, wr)
               THEN \/ /\ fs' = Written(Downloaded(fs, r, "cover.png", net, wr),
                                        r, "cover.pdf")
                       /\ rq' = [rq EXCEPT
                             ![r].merger = MergerAppend(<<>>, "cover.pdf"),
                             ![r].got = @ \cup {"cover.png"},
                             ![r].pc = "content"]
                    \/ /\ fs' = Downloaded(fs, r, "cover.png", net, wr)
                       /\ Raise(r)
               ELSE /\ fs' = Downloaded(fs, r, "cover.png", net, wr)
                    /\ rq' = [rq EXCEPT
                          ![r].merger = <<>>,
                          ![r].localFailed = @ \/ (net = "ok" /\ wr # "ok"),
                          ![r].pc = "content"]
       ELSE /\ rq' = [rq EXCEPT ![r].merger = <<>>, ![r].pc = "content"]
            /\ fs' = fs
    /\ UNCHANGED textVars

\* Line 443.
MergeContent(r) ==
    /\ rq[r].pc = "content"
    /\ \/ rq' = [rq EXCEPT
             ![r].merger = MergerAppend(@, IF rq[r].logo_html THEN "content+logo.pdf"
                                           ELSE "content.pdf"),
             ![r].i = 0,
             ![r].pc = "infographics"]
       \/ Raise(r)
    /\ fs' = fs
    /\ UNCHANGED textVars

\* Lines 446-452: one iteration of the loop, or its end.
MergeInfographic(r) ==
    /\ rq[r].pc = "infographics"
    /\ LET i == rq[r].i
       IN  IF i < rq[r].request.infographic_urls
           THEN \E net \in FetchOutcomes, wr \in WriteOutcomes :
                   IF download_image(net, wr)
                   THEN \/ /\ fs' = Written(Downloaded(fs, r, InfPng(i), net, wr),
                                            r, InfPdf(i))
                           /\ rq' = [rq EXCEPT
                                 ![r].merger = MergerAppend(@, InfPdf(i)),
                                 ![r].got = @ \cup {InfPng(i)},
                                 ![r].i = i + 1]
                        \/ /\ fs' = Downloaded(fs, r, InfPng(i), net, wr)
                           /\ Raise(r)
                   ELSE /\ fs' = Downloaded(fs, r, InfPng(i), net, wr)
                        /\ rq' = [rq EXCEPT
                              ![r].localFailed = @ \/ (net = "ok" /\ wr # "ok"),
                              ![r].i = i + 1]
           ELSE /\ rq' = [rq EXCEPT ![r].pc = "final"]
                /\ fs' = fs
    /\ UNCHANGED textVars

\* Lines 454-461: the final document is written, read back and returned.
WriteFinal(r) ==
    /\ rq[r].pc = "final"
    /\ \/ /\ fs' = Written(fs, r, "final.pdf")
          /\ rq' = [rq EXCEPT
                ![r].pdf_bytes = rq[r].merger,
                ![r].pc = IF rq[r].request.endpoint = "pdf" THEN "pdf_return"
                          ELSE "zip_pdf"]
       \/ Raise(r) /\ fs' = fs
    /\ UNCHANGED textVars

\* Lines 493-501: the response of generate_pdf is built inside the with block.
PdfReturn(r) ==
    /\ rq[r].pc = "pdf_return"
    /\ rq' = [rq EXCEPT
          ![r].response = [status |-> "ok", media |-> "application/pdf",
                           body |-> rq[r].pdf_bytes],
          ![r].pc = "exit_dir"]
    /\ fs' = fs
    /\ UNCHANGED textVars

\* Lines 534-535.
ZipPdf(r) ==
    /\ rq[r].pc = "zip_pdf"
    /\ \/ rq' = [rq EXCEPT ![r].zipf = Append(@, "safe_title.pdf"),
                           ![r].pc = "zip_cover"]
       \/ Raise(r)
    /\ fs' = fs
    /\ UNCHANGED textVars

\* The pattern of lines 538-542, 545-549 and 568-572: when the URL is given the
\* image is fetched again, under name dl, read and stored as entry.
ZipImage(r, at, url, dl, entry, then) ==
    /\ rq[r].pc = at
    /\ IF url = "Given"
       THEN \E net \in FetchOutcomes, wr \in WriteOutcomes :
               /\ fs' = Downloaded(fs, r, dl, net, wr)
               /\ IF download_image(net, wr)
                  THEN \/ rq' = [rq EXCEPT ![r].zipf = Append(@, entry),
                                           ![r].got = @ \cup {dl},
                                           ![r].pc = then]
                       \/ Raise(r)
                  ELSE rq' = [rq EXCEPT
                          ![r].localFailed = @ \/ (net = "ok" /\ wr # "ok"),
                          ![r].pc = then]
       ELSE /\ rq' = [rq EXCEPT ![r].pc = then]
            /\ fs' = fs
    /\ UNCHANGED textVars

\* Lines 537-542.
ZipCover(r) ==
    ZipImage(r, "zip_cover", rq[r].request.cover_url, "cover_dl.png", "cover_a4.png",
             "zip_mockup")

\* Lines 544-549.
ZipMockup(r) ==
    ZipImage(r, "zip_mockup", rq[r].request.mockup_url, "mockup_dl.png",
             "mockup_tablet.png", "zip_enumerate")

\* Line 553: enumerate(request.infographic_urls, 1) counts from 1.
ZipEnumerate(r) ==
    /\ rq[r].pc = "zip_enumerate"
    /\ rq' = [rq EXCEPT ![r].i = 1, ![r].pc = "zip_infographics"]
    /\ fs' = fs
    /\ UNCHANGED textVars

\* Lines 551-557: one iteration of the loop, or its end.
ZipInfographic(r) ==
    /\ rq[r].pc = "zip_infographics"
    /\ LET i == rq[r].i
       IN  IF i <= rq[r].request.infographic_urls
           THEN \E net \in FetchOutcomes, wr \in WriteOutcomes :
                   /\ fs' = Downloaded(fs, r, InfDl(i), net, wr)
                   /\ IF download_image(net, wr)
                      THEN \/ rq' = [rq EXCEPT ![r].zipf = Append(@, ZipInfName(i)),
                                               ![r].got = @ \cup {InfDl(i)},
                                               ![r].i = i + 1]
                           \/ Raise(r)
                      ELSE rq' = [rq EXCEPT
                              ![r].localFailed = @ \/ (net = "ok" /\ wr # "ok"),
                              ![r].i = i + 1]
           ELSE /\ rq' = [rq EXCEPT ![r].pc = "zip_blog"]
                /\ fs' = fs
    /\ UNCHANGED textVars

\* The pattern of lines 560-561 and 564-565.
ZipText(r, at, given, entry, then) ==
    /\ rq[r].pc = at
    /\ IF given = "Given"
       THEN \/ rq' = [rq EXCEPT ![r].zipf = Append(@, entry), ![r].pc = then]
            \/ Raise(r)
       ELSE rq' = [rq EXCEPT ![r].pc = then]
    /\ fs' = fs
    /\ UNCHANGED textVars

\* Lines 559-561.
ZipBlog(r) == ZipText(r, "zip_blog", rq[r].request.blog_post, "blog_post.md", "zip_shop")

\* Lines 563-565.
ZipShop(r) ==
    ZipText(r, "zip_shop", rq[r].request.shop_description, "opis_sklepu.md", "zip_logo")

\* Lines 567-572.
ZipLogo(r) ==
    ZipImage(r, "zip_logo", rq[r].request.logo_url, "logo_dl.png", "logo_fotz.png",
             "zip_return")

\* Lines 573-582: the archive is closed and the response of generate_zip built.
ZipReturn(r) ==
    /\ rq[r].pc = "zip_return"
    /\ \/ rq' = [rq EXCEPT
             ![r].response = [status |-> "ok", media |-> "application/zip",
                              body |-> rq[r].zipf],
             ![r].pc = "exit_dir"]
       \/ Raise(r)
    /\ fs' = fs
    /\ UNCHANGED textVars

\* TemporaryDirectory.__exit__ (the with blocks of lines 490 and 515), on return
\* and on an exception alike: the directory and all it holds are removed.
ExitTempDir(r) ==
    /\ rq[r].pc = "exit_dir"
    /\ fs' = [fs EXCEPT ![rq[r].temp_dir] = NoDir]
    /\ rq' = [rq EXCEPT ![r].pc = IF rq[r].exc THEN "except" ELSE "done"]
    /\ UNCHANGED textVars

\* Lines 503-504 and 584-585: the exception becomes the failure response.
Except(r) ==
    /\ rq[r].pc = "except"
    /\ rq' = [rq EXCEPT
          ![r].response = [status |-> "error", media |-> "detail", body |-> <<>>],
          ![r].pc = "done"]
    /\ fs' = fs
    /\ UNCHANGED textVars

\* The response is sent and the slot is free for the next request.
NextRequest(r) ==
    /\ rq[r].pc = "done"
    /\ rq' = [rq EXCEPT ![r] = Idle]
    /\ fs' = fs
    /\ UNCHANGED textVars

Step(r) ==
    \/ FetchLogo(r) \/ WriteHtml(r) \/ RenderContent(r) \/ MergeCover(r)
    \/ MergeContent(r) \/ MergeInfographic(r) \/ WriteFinal(r) \/ PdfReturn(r)
    \/ ZipPdf(r) \/ ZipCover(r) \/ ZipMockup(r) \/ ZipEnumerate(r)
    \/ ZipInfographic(r) \/ ZipBlog(r)
    \/ ZipShop(r) \/ ZipLogo(r) \/ ZipReturn(r) \/ ExitTempDir(r) \/ Except(r)
    \/ NextRequest(r)

TextIdle ==
    /\ text = <<>> /\ kws = <<>> /\ content = <<>> /\ prev = <<>>
    /\ kwIdx = 0 /\ phase = "idle"

\* One server process: requests are served one at a time, in slot 1.
Init == PipeInit /\ TextIdle
Next == \E r \in {1} : (\E request \in Requests : Start(r, request)) \/ Step(r)
Spec == Init /\ [][Next]_vars

\* Two server processes, their steps interleaved.
NextWorkers ==
    \E r \in Reqs : (\E request \in SmallRequests : Start(r, request)) \/ Step(r)
SpecWorkers == Init /\ [][NextWorkers]_vars

-----------------------------------------------------------------------------
(* The inputs of the text functions *)

RECURSIVE Texts(_, _)
\* The texts made of at most n pieces of the set P.
Texts(P, n) ==
    IF n = 0 THEN {<<>>}
    ELSE LET shorter == Texts(P, n - 1)
         IN  shorter \cup {t \o p : t \in shorter, p \in P}

MaxHeadPieces == 5
HeadPieces == {<<"#", "#">>, <<"#">>, <<" ">>, <<"\n">>,
               <<"a", "i">>, <<"A", "I">>, <<"x">>, <<"X">>}

MaxTitlePieces == 4
TitlePieces == {<<"a">>, <<"B">>, <<"2">>, <<"_">>, <<"-">>, <<" ">>, <<"\t">>,
                <<"!">>, <<":">>}

MaxBoldPieces == 4
BoldPieces == {<<"a">>, <<"b">>, <<"*", "*">>, <<" ">>, <<"\n", "\n">>,
               <<"b", "B", "b", "b", "b", "b", "b">>}
KeywordLists == {<<>>, <<<<"A">>>>, <<<<"a", "b">>, <<"b">>>>, <<<<"a">>, <<"a">>>>}

TextInit(T, K) ==
    /\ text \in T
    /\ kws \in K
    /\ content = text
    /\ prev = text
    /\ kwIdx = 0
    /\ phase = "in"

\* generate_pdf, lines 494-495, and generate_zip, lines 534-535.
Sanitize ==
    /\ phase = "in"
    /\ content' = safe_title(text)
    /\ phase' = "done"
    /\ UNCHANGED <<text, kws, prev, kwIdx>>
    /\ UNCHANGED pipeVars

InitTitle == TextInit(Texts(TitlePieces, MaxTitlePieces), {<<>>}) /\ PipeInit
NextTitle == Sanitize
SpecTitle == InitTitle /\ [][NextTitle]_vars

\* process_content, line 170.
StandardizeTitles ==
    /\ phase = "in"
    /\ content' = standardize_titles(text)
    /\ phase' = "done"
    /\ UNCHANGED <<text, kws, prev, kwIdx>>
    /\ UNCHANGED pipeVars

InitHead == TextInit(Texts(HeadPieces, MaxHeadPieces), {<<>>}) /\ PipeInit
NextHead == StandardizeTitles
SpecHead == InitHead /\ [][NextHead]_vars

\* apply_bold_keywords, lines 145-146: no keywords, the text is returned as it is.
BoldNoKeywords ==
    /\ phase = "in"
    /\ kws = <<>>
    /\ phase' = "done"
    /\ UNCHANGED <<text, kws, content, prev, kwIdx>>
    /\ UNCHANGED pipeVars

\* One iteration of the loop of lines 148-160.
BoldKeyword ==
    /\ phase \in {"in", "run"}
    /\ kwIdx < Len(kws)
    /\ prev' = content
    /\ content' = replace_first_in_paragraph(content, kws[kwIdx + 1])
    /\ kwIdx' = kwIdx + 1
    /\ phase' = "run"
    /\ UNCHANGED <<text, kws>>
    /\ UNCHANGED pipeVars

\* Line 162.
BoldReturn ==
    /\ phase = "run"
    /\ kwIdx = Len(kws)
    /\ phase' = "done"
    /\ UNCHANGED <<text, kws, content, prev, kwIdx>>
    /\ UNCHANGED pipeVars

InitBold == TextInit(Texts(BoldPieces, MaxBoldPieces), KeywordLists) /\ PipeInit
NextBold == BoldNoKeywords \/ BoldKeyword \/ BoldReturn
SpecBold == InitBold /\ [][NextBold]_vars

-----------------------------------------------------------------------------
(* The request pipeline: claims C1, C2, C3, C4 and C10 *)

RECURSIVE FetchedPages(_, _, _)
\* The infographic pages i..n-1 (numbered from 0) whose image was fetched, in order.
FetchedPages(got, i, n) ==
    IF i >= n THEN <<>>
    ELSE (IF ("infographic_" \o ToString(i) \o ".png") \in got
          THEN <<"infographic_" \o ToString(i) \o ".pdf">> ELSE <<>>)
         \o FetchedPages(got, i + 1, n)

\* The content document of request r.
ContentDocument(r) == IF rq[r].logo_html THEN "content+logo.pdf" ELSE "content.pdf"

\* The document C1 states: the cover page if fetched, the content document, the
\* pages of the fetched infographics in the order of the request.
ClaimedDocument(r) ==
    (IF rq[r].request.cover_url = "Given" /\ "cover.png" \in rq[r].got
     THEN <<"cover.pdf">> ELSE <<>>)
    \o <<ContentDocument(r)>>
    \o FetchedPages(rq[r].got, 0, rq[r].request.infographic_urls)

\* C1: the final document is, in this order, the cover page if and only if a cover
\* URL was given and fetched, the content document once, and one page for each
\* infographic that was fetched, in the order of the request; nothing else.
C1_DocumentOrder ==
    \A r \in Reqs :
        /\ rq[r].pdf_bytes # <<>> => rq[r].pdf_bytes = ClaimedDocument(r)
        /\ rq[r].response.media = "application/pdf" =>
              rq[r].response.body = ClaimedDocument(r)

\* A document was returned whose cover and second infographic were fetched and
\* whose first infographic was not.
C1_Witness ==
    \E r \in Reqs :
        /\ rq[r].pc = "done"
        /\ rq[r].response.media = "application/pdf"
        /\ rq[r].request.infographic_urls >= 2
        /\ "cover.png" \in rq[r].got
        /\ "infographic_0.png" \notin rq[r].got
        /\ "infographic_1.png" \in rq[r].got

\* C2: a request ends in the failure response if and only if a local step failed
\* (rendering, local file input or output, image decoding, merging, archive
\* writing), remote fetch failures alone never make it fail, and the failure
\* response carries no document or archive.
C2_FailsIffLocalStepFails ==
    \A r \in Reqs :
        rq[r].pc = "done" =>
            /\ rq[r].response.status = "error" <=> rq[r].localFailed
            /\ rq[r].response.status = "error" => rq[r].response.body = <<>>
            /\ rq[r].response.status = "ok" => rq[r].response.body # <<>>

\* Request r is between the creation of its directory and its removal.
InFlight(r) == rq[r].pc \notin {"idle", "except", "done"}

\* C3: every request has a scratch directory of its own, which no other request
\* writes to, and the directory is gone when the request completes, on return and
\* on an exception alike: no directory of a completed request remains.
C3_ScratchDirectory ==
    /\ \A r \in Reqs :
          InFlight(r) => /\ rq[r].temp_dir \in DirNames
                         /\ fs[rq[r].temp_dir].exists
                         /\ fs[rq[r].temp_dir].owner = r
    /\ \A r1, r2 \in Reqs :
          (r1 # r2 /\ InFlight(r1) /\ InFlight(r2)) => rq[r1].temp_dir # rq[r2].temp_dir
    /\ \A d \in DirNames :
          /\ fs[d].exists => InFlight(fs[d].owner) /\ rq[fs[d].owner].temp_dir = d
          /\ \A f \in fs[d].files : fs[d].exists /\ f[2] = fs[d].owner

\* One request has failed on an exception after it had made its directory, while
\* another one is at work with files in its own.
C3_Witness ==
    \E r1, r2 \in Reqs :
        /\ r1 # r2
        /\ rq[r1].pc = "done"
        /\ rq[r1].response.status = "error"
        /\ rq[r1].temp_dir \in DirNames
        /\ InFlight(r2)
        /\ fs[rq[r2].temp_dir].files # {}

\* The entries C4 states for the archive of request r.
ClaimedEntries(r) ==
    LET q == rq[r].request
        got == rq[r].got
    IN  {"safe_title.pdf"}
        \cup (IF q.cover_url = "Given" /\ "cover_dl.png" \in got
              THEN {"cover_a4.png"} ELSE {})
        \cup (IF q.mockup_url = "Given" /\ "mockup_dl.png" \in got
              THEN {"mockup_tablet.png"} ELSE {})
        \cup (IF q.logo_url = "Given" /\ "logo_dl.png" \in got
              THEN {"logo_fotz.png"} ELSE {})
        \cup (IF q.blog_post = "Given" THEN {"blog_post.md"} ELSE {})
        \cup (IF q.shop_description = "Given" THEN {"opis_sklepu.md"} ELSE {})
        \cup {"infographic_" \o ToString(k) \o ".png" :
                k \in {j \in 1..q.infographic_urls :
                          ("inf_" \o ToString(j) \o "_dl.png") \in got}}

\* The request of the archive of seven entries: everything given but the mockup.
IsFullRequest(r) ==
    /\ rq[r].request.cover_url = "Given" /\ rq[r].request.logo_url = "Given"
    /\ rq[r].request.blog_post = "Given" /\ rq[r].request.shop_description = "Given"
    /\ rq[r].request.mockup_url = "Absent" /\ rq[r].request.infographic_urls = 2
    /\ {"cover_dl.png", "inf_1_dl.png", "inf_2_dl.png", "logo_dl.png"} \subseteq rq[r].got

\* C4: the entries of the archive are the document and, each if and only if its
\* input was given and (for an image) fetched for the archive, the cover, the
\* mockup, the logo, the two texts, and infographic_k.png for the k-th fetched
\* infographic, counted from 1; the names are distinct; the request with everything
\* but the mockup gives seven entries, the infographics numbered 1 and 2.
C4_ArchiveEntries ==
    \A r \in Reqs :
        rq[r].response.media = "application/zip" =>
            LET body == rq[r].response.body
                names == {body[i] : i \in 1..Len(body)}
            IN  /\ names = ClaimedEntries(r)
                /\ Cardinality(names) = Len(body)
                /\ IsFullRequest(r) =>
                      /\ Len(body) = 7
                      /\ names = {"safe_title.pdf", "cover_a4.png", "infographic_1.png",
                                  "infographic_2.png", "logo_fotz.png", "blog_post.md",
                                  "opis_sklepu.md"}

\* The archive of the full request was returned.
C4_Witness ==
    \E r \in Reqs :
        /\ rq[r].pc = "done"
        /\ rq[r].response.media = "application/zip"
        /\ IsFullRequest(r)

\* C10: the archive and the document packaged in it agree on every remote asset:
\* the raw cover is an entry if and only if the document has the cover page, the
\* k-th raw infographic if and only if the document has its page, the raw logo if
\* and only if the document has the logo block.
C10_ArchiveAgreesWithDocument ==
    \A r \in Reqs :
        rq[r].response.media = "application/zip" =>
            LET body == rq[r].response.body
                names == {body[i] : i \in 1..Len(body)}
                pages == {rq[r].pdf_bytes[i] : i \in 1..Len(rq[r].pdf_bytes)}
            IN  /\ "cover_a4.png" \in names <=> "cover.pdf" \in pages
                /\ "logo_fotz.png" \in names <=> "content+logo.pdf" \in pages
                /\ \A k \in 1..rq[r].request.infographic_urls :
                      ("infographic_" \o ToString(k) \o ".png") \in names
                      <=> ("infographic_" \o ToString(k - 1) \o ".pdf") \in pages

-----------------------------------------------------------------------------
(* Title sanitisation: claim C5 *)

RECURSIVE CollapseWhiteSpace(_)
\* Every run of white space of s replaced by one underscore.
CollapseWhiteSpace(s) ==
    IF s = <<>> THEN <<>>
    ELSE IF s[1] \in WhiteSpace
         THEN <<"_">> \o CollapseWhiteSpace(SubSeq(s, 1 + Run(s, 1, WhiteSpace), Len(s)))
         ELSE <<s[1]>> \o CollapseWhiteSpace(Tail(s))

\* C5: the sanitized title is the title without the characters that are neither
\* alphanumeric, underscore, hyphen nor white space, and with every run of white
\* space (of any kind) replaced by a single underscore, so it holds no white space.
C5_WhitespaceRunsCollapsed ==
    phase = "done" =>
        /\ content = CollapseWhiteSpace(
               SelectSeq(text, LAMBDA c : IsWordChar(c) \/ c \in WhiteSpace \/ c = "-"))
        /\ AllChars(content) \cap WhiteSpace = {}

-----------------------------------------------------------------------------
(* standardize_titles: claims C6 and C7 *)

Lines(s) == SplitOn(s, <<"\n">>)

\* The number of # a line starts with, when it is a heading marker of level 2 to 4
\* (two to four # and then white space or the end of the line); 0 otherwise.
Marker(line) ==
    LET h == Run(line, 1, {"#"})
    IN  IF h \in 2..4 /\ (Len(line) = h \/ line[h + 1] \in WhiteSpace) THEN h ELSE 0

HeadingWords(line) == SplitWords(SubSeq(line, Marker(line) + 1, Len(line)))

\* A heading line of level 2 to 4 that has heading text.
IsHeading(line) == Marker(line) > 0 /\ HeadingWords(line) # <<>>

\* A heading marker of level 2 to 4 with no words after it.
IsEmptyHeading(line) == Marker(line) > 0 /\ HeadingWords(line) = <<>>

\* The casing C6 states for the j-th word of a heading.
ClaimedWord(word, j) ==
    IF IsProper(word) THEN ProperForm(word)
    ELSE IF j = 1 THEN Capitalize(word) ELSE LowerStr(word)

\* C6: every heading line of level 2 to 4 keeps its marker, its first word starts
\* with an upper-case letter, its words outside the registry are lower-case and its
\* words of the registry, in any position and any input case, have the registry's
\* casing. (Stated for the texts without an empty heading marker, whose lines the
\* function keeps apart.)
C6_HeadingCasing ==
    (phase = "done" /\ \A i \in 1..Len(Lines(text)) : ~IsEmptyHeading(Lines(text)[i])) =>
        /\ Len(Lines(content)) = Len(Lines(text))
        /\ \A i \in 1..Len(Lines(text)) :
              LET in == Lines(text)[i]
                  out == Lines(content)[i]
              IN  IsHeading(in) =>
                    /\ Marker(out) = Marker(in)
                    /\ Len(HeadingWords(out)) = Len(HeadingWords(in))
                    /\ ~IsLower(HeadingWords(out)[1][1])
                    /\ \A j \in 1..Len(HeadingWords(in)) :
                          HeadingWords(out)[j] = ClaimedWord(HeadingWords(in)[j], j)

\* C7: the function changes only the heading lines of level 2 to 4 that have
\* heading text: the number of lines is unchanged and every other line, an empty
\* heading marker included, is the same in the output.
C7_OnlyHeadingsChange ==
    phase = "done" =>
        /\ Len(Lines(content)) = Len(Lines(text))
        /\ \A i \in 1..Len(Lines(text)) :
              ~IsHeading(Lines(text)[i]) => Lines(content)[i] = Lines(text)[i]

-----------------------------------------------------------------------------
(* apply_bold_keywords: claims C8 and C9 *)

Paragraphs(s) == SplitOn(s, <<"\n", "\n">>)

\* para with emphasis markers put around its characters p..e.
Wrap(para, p, e) ==
    SubSeq(para, 1, p - 1) \o <<"*", "*">> \o SubSeq(para, p, e) \o <<"*", "*">>
    \o SubSeq(para, e + 1, Len(para))

\* para[p..e] is an occurrence of the keyword pattern: the keyword, in any case,
\* and then at most six letters.
IsOccurrence(para, p, e, kw) ==
    /\ 1 <= p /\ p + Len(kw) - 1 <= e /\ e <= Len(para)
    /\ e - (p + Len(kw) - 1) <= 6
    /\ \A i \in 1..Len(kw) : Lower(para[p + i - 1]) = Lower(kw[i])
    /\ \A i \in (p + Len(kw))..e : IsLower(Lower(para[i]))

\* The two characters of s from position q on are an emphasis marker.
MarkerAt(s, q) == q >= 1 /\ q + 1 <= Len(s) /\ <<s[q], s[q + 1]>> = <<"*", "*">>

\* An occurrence with no emphasis marker right before it and none right after it.
IsFreeOccurrence(para, p, e, kw) ==
    IsOccurrence(para, p, e, kw) /\ ~MarkerAt(para, p - 2) /\ ~MarkerAt(para, e + 1)

\* The spans <<p, e>> of para long enough for the keyword and at most six letters.
Spans(para, kw) ==
    UNION {{<<p, e>> : e \in (p + Len(kw) - 1)..(p + Len(kw) + 5)} : p \in 1..Len(para)}

\* What one application of keyword kw makes of a paragraph, as C8 amended states
\* it: the first free occurrence, taken as long as it can be, is wrapped.
FirstFreeWrapped(in, out, kw) ==
    LET free == {pe \in Spans(in, kw) : IsFreeOccurrence(in, pe[1], pe[2], kw)}
    IN  IF free = {} THEN out = in
        ELSE \E pe \in free :
                /\ \A o \in free : pe[1] < o[1] \/ (pe[1] = o[1] /\ pe[2] >= o[2])
                /\ out = Wrap(in, pe[1], pe[2])

\* What C8 states: nothing is wrapped, or the first occurrence of the paragraph is.
FirstOccurrenceWrapped(in, out, kw) ==
    LET occ == {pe \in Spans(in, kw) : IsOccurrence(in, pe[1], pe[2], kw)}
    IN  \/ out = in
        \/ \E pe \in occ : (\A o \in occ : pe[1] <= o[1]) /\ out = Wrap(in, pe[1], pe[2])

\* C8 as stated: in every paragraph a keyword wraps at most one occurrence of its
\* pattern, and the one wrapped is the first occurrence of the paragraph; without
\* keywords the text is returned unchanged.
C8_FirstOccurrenceOnly ==
    /\ (phase = "done" /\ kws = <<>>) => content = text
    /\ phase = "run" =>
          /\ Len(Paragraphs(content)) = Len(Paragraphs(prev))
          /\ \A i \in 1..Len(Paragraphs(prev)) :
                FirstOccurrenceWrapped(Paragraphs(prev)[i], Paragraphs(content)[i],
                                       kws[kwIdx])

\* C8 amended: in every paragraph one application of a keyword wraps at most one
\* occurrence of its pattern: the first one that has no emphasis marker right
\* before it and none right after it (the trailing letters cut short enough for
\* that); every other occurrence is left as it was; without keywords the text is
\* returned unchanged.
C8_FirstFreeOccurrenceOnly ==
    /\ (phase = "done" /\ kws = <<>>) => content = text
    /\ phase = "run" =>
          LET in == Paragraphs(prev)
              out == Paragraphs(content)
          IN  /\ Len(out) = Len(in)
              /\ \A i \in 1..Len(in) : FirstFreeWrapped(in[i], out[i], kws[kwIdx])

\* A keyword has just been applied to a paragraph whose first occurrence has an
\* emphasis marker next to it, and a later occurrence of it was wrapped.
C8_Witness ==
    /\ phase = "run"
    /\ \E i \in 1..Len(Paragraphs(prev)) :
          LET in == Paragraphs(prev)[i]
              occ == {pe \in Spans(in, kws[kwIdx]) :
                          IsOccurrence(in, pe[1], pe[2], kws[kwIdx])}
          IN  /\ Paragraphs(content)[i] # in
              /\ \E first \in occ, later \in occ :
                    /\ \A o \in occ : first[1] <= o[1]
                    /\ first[1] < later[1]
                    /\ Paragraphs(content)[i] = Wrap(in, later[1], later[2])

RECURSIVE MarkersIn(_)
\* The number of emphasis markers of s, read from the left.
MarkersIn(s) ==
    IF Len(s) < 2 THEN 0
    ELSE IF MarkerAt(s, 1) THEN 1 + MarkersIn(SubSeq(s, 3, Len(s)))
    ELSE MarkersIn(Tail(s))

\* Position p of para lies between an opening emphasis marker and its closing one.
InsideEmphasis(para, p) ==
    /\ MarkersIn(SubSeq(para, 1, p - 1)) % 2 = 1
    /\ MarkersIn(SubSeq(para, p, Len(para))) >= 1

\* The first position at which two different strings differ.
FirstDifference(a, b) ==
    CHOOSE p \in 1..(Len(a) + 1) :
        /\ \A q \in 1..(p - 1) : q <= Len(b) /\ a[q] = b[q]
        /\ p > Len(a) \/ p > Len(b) \/ a[p] # b[p]

\* C9: a keyword never wraps text that lies inside an emphasis marker pair, be the
\* pair in the input or put there by an earlier keyword.
C9_NoNestedEmphasis ==
    phase = "run" =>
        \A i \in 1..Len(Paragraphs(prev)) :
            LET in == Paragraphs(prev)[i]
                out == Paragraphs(content)[i]
            IN  out # in => ~InsideEmphasis(in, FirstDifference(in, out))

====
